---- MODULE Spec2Model ----
(***************************************************************************)
(* Privacy-risk engine of pellungrobe/privacy-lib: the ordered record      *)
(* containers (data_structures.py) and the attacks (attacks.py).           *)
(*                                                                         *)
(* Numbers.  Frequencies are integers.  A tolerance is a rational with     *)
(* denominator TolDen and is held as its numerator; a probability payload  *)
(* is a rational with denominator TolDen too, held as its numerator.  A    *)
(* re-identification probability is a pair num/den.  All comparisons are   *)
(* exact (cross-multiplied).  A timestamp is the decimal digit string of   *)
(* the integer (most significant digit first, no leading zero), because    *)
(* VisitAttack cuts that string and 14-digit integers exceed TLC's range.  *)
(*                                                                         *)
(* Outcomes.  A Python call either returns or raises: has_matching yields  *)
(* "True", "False" or the name of the exception; risk yields a result      *)
(* record with ok = TRUE and the value num/den, or ok = FALSE and err.     *)
(***************************************************************************)
EXTENDS Integers, Sequences, FiniteSets, TLC

VARIABLES kind, dataset, attack, instance, out

vars == <<kind, dataset, attack, instance, out>>

(***************************************************************************)
(* Bounds of the model.                                                    *)
(***************************************************************************)
MaxRecords == 2
MaxVisits == 2
MaxK == 2
MaxScanVisits == 2
MaxInst == 2

TolDen == 10

(***************************************************************************)
(* Generic helpers.                                                        *)
(***************************************************************************)
Min(a, b) == IF a < b THEN a ELSE b

Range(s) == {s[i] : i \in 1..Len(s)}

SeqsUpTo(S, n) == UNION {[1..m -> S] : m \in 0..n}

InsertAt(s, idx, e) == SubSeq(s, 1, idx) \o <<e>> \o SubSeq(s, idx + 1, Len(s))

(***************************************************************************)
(* Timestamps as digit strings, compared as the integers they denote.      *)
(***************************************************************************)
RECURSIVE LexLess(_, _)
LexLess(a, b) ==
    IF a = <<>> \/ b = <<>> THEN FALSE
    ELSE IF Head(a) # Head(b) THEN Head(a) < Head(b)
    ELSE LexLess(Tail(a), Tail(b))

IntLess(a, b) == Len(a) < Len(b) \/ (Len(a) = Len(b) /\ LexLess(a, b))

(***************************************************************************)
(* data_structures.py: record kinds, their payload field and sort key.     *)
(***************************************************************************)
Kinds == {"Trajectory", "FrequencyVector", "ProbabilityVector"}

data_type(k) ==
    CASE k = "Trajectory" -> "time"
      [] k = "FrequencyVector" -> "freq"
      [] k = "ProbabilityVector" -> "prob"

IndividualRecord(individual_id) == [id |-> individual_id, visits |-> <<>>]

\* Mutant of SearchSortedLeft: the index past the end (the visit is appended).
SearchSortedAppend(a, v) == Len(a)

\* numpy.searchsorted(a, v) on an ascending array a, side="left": the number of
\* elements strictly below v.
SearchSortedLeft(a, v) == Cardinality({i \in 1..Len(a) : IntLess(a[i], v)})

\* numpy.searchsorted(a[::-1], v, side="right") on a descending array a: the
\* number of elements of a that are <= v.
SearchSortedRightRev(a, v) == Cardinality({i \in 1..Len(a) : a[i] <= v})

Payloads(visits) == [i \in 1..Len(visits) |-> visits[i].p]

TrajectoryAddVisit(visits, x, y, i) ==
    LET index == SearchSortedLeft(Payloads(visits), i)
    IN  InsertAt(visits, index, [x |-> x, y |-> y, p |-> i])

VectorAddVisit(visits, x, y, i) ==
    LET index == Len(visits) - SearchSortedRightRev(Payloads(visits), i)
    IN  InsertAt(visits, index, [x |-> x, y |-> y, p |-> i])

add_visit(k, visits, x, y, i) ==
    IF k = "Trajectory" THEN TrajectoryAddVisit(visits, x, y, i)
    ELSE VectorAddVisit(visits, x, y, i)

(***************************************************************************)
(* attacks.py: the matchers.  An attack is [name, k, tolerance, precision];*)
(* tolerance is the numerator over TolDen (-1 when the attack has none),   *)
(* precision is "" when the attack has none.  An instance is a numpy       *)
(* structured array: [field |-> name of its payload field, elems |-> the   *)
(* elements <<[x, y, p]>>].  rfield is the payload field of the record.    *)
(***************************************************************************)
precision_levels == <<"Year", "Month", "Day", "Hour", "Minute", "Second">>

PrecisionDigits(precision) ==
    CASE precision = "Year" -> 4
      [] precision = "Month" -> 6
      [] precision = "Day" -> 8
      [] precision = "Hour" -> 10
      [] precision = "Minute" -> 12
      [] precision = "Second" -> 14

\* int(str(i)[:n]): the leading n digits (all of them when there are fewer).
extract_precision(precision, i) == SubSeq(i, 1, Min(PrecisionDigits(precision), Len(i)))

SameXY(instance_elem, record_elem) ==
    instance_elem.x = record_elem.x /\ instance_elem.y = record_elem.y

\* One iteration of a scanning matcher decides "consume" (count += 1), "skip",
\* "fail" (has_match = False; break) or raises "FieldError" (the structured
\* array has no field of the name read).
LocationSequenceJudge(record_elem, instance_elem) ==
    IF SameXY(instance_elem, record_elem) THEN "consume" ELSE "skip"

\* Mutant of VisitJudge: the pruning test reversed (too_early = t_diff > 0).
VisitJudgeEarlierFails(a, record_elem, rfield, instance_elem, ifield) ==
    IF ifield # "time" \/ rfield # "time" THEN "FieldError"
    ELSE LET ti == extract_precision(a.precision, instance_elem.p)
             tr == extract_precision(a.precision, record_elem.p)
             samet == ti = tr
             too_early == IntLess(tr, ti)
         IN  IF SameXY(instance_elem, record_elem) /\ samet THEN "consume"
             ELSE IF too_early THEN "fail"
             ELSE "skip"

\* t_diff = truncated instance time - truncated record time; samet is
\* t_diff == 0 and too_early is t_diff < 0.
VisitJudge(a, record_elem, rfield, instance_elem, ifield) ==
    IF ifield # "time" \/ rfield # "time" THEN "FieldError"
    ELSE LET ti == extract_precision(a.precision, instance_elem.p)
             tr == extract_precision(a.precision, record_elem.p)
             samet == ti = tr
             too_early == IntLess(ti, tr)
         IN  IF SameXY(instance_elem, record_elem) /\ samet THEN "consume"
             ELSE IF too_early THEN "fail"
             ELSE "skip"

\* Mutant of FrequencyJudge: the tolerance is left out of f_diff.
FrequencyJudgeNoTolerance(a, record_elem, rfield, instance_elem, ifield) ==
    IF ifield # "freq" \/ rfield # "freq" THEN "FieldError"
    ELSE LET f_diff == record_elem.p - instance_elem.p
         IN  IF SameXY(instance_elem, record_elem) /\ f_diff >= 0 THEN "consume"
             ELSE IF f_diff < 0 THEN "fail"
             ELSE "skip"

\* f_diff = record freq - instance freq * tolerance, scaled by TolDen.
FrequencyJudge(a, record_elem, rfield, instance_elem, ifield) ==
    IF ifield # "freq" \/ rfield # "freq" THEN "FieldError"
    ELSE LET f_diff == record_elem.p * TolDen - instance_elem.p * a.tolerance
             samef == f_diff >= 0
             too_few_f == f_diff < 0
         IN  IF SameXY(instance_elem, record_elem) /\ samef THEN "consume"
             ELSE IF too_few_f THEN "fail"
             ELSE "skip"

ProbabilityJudge(a, record_elem, rfield, instance_elem, ifield) ==
    IF ifield # "prob" \/ rfield # "prob" THEN "FieldError"
    ELSE LET p_diff_min == record_elem.p - instance_elem.p - a.tolerance
             p_diff_max == record_elem.p - instance_elem.p + a.tolerance
             samep == p_diff_min >= 0 /\ p_diff_max <= 0
             too_few_p == p_diff_min < 0
         IN  IF SameXY(instance_elem, record_elem) /\ samep THEN "consume"
             ELSE IF too_few_p THEN "fail"
             ELSE "skip"

\* Phase 1 of ProportionAttack.has_matching reads record_elem["freq"] only when
\* it consumes (to fill matched_elements).
ProportionJudge(record_elem, rfield, instance_elem) ==
    IF SameXY(instance_elem, record_elem)
    THEN (IF rfield # "freq" THEN "FieldError" ELSE "consume")
    ELSE "skip"

Judge(a, record_elem, rfield, instance_elem, ifield) ==
    CASE a.name = "LocationSequence" -> LocationSequenceJudge(record_elem, instance_elem)
      [] a.name = "Visit" -> VisitJudge(a, record_elem, rfield, instance_elem, ifield)
      [] a.name = "Frequency" -> FrequencyJudge(a, record_elem, rfield, instance_elem, ifield)
      [] a.name = "HomeWork" -> FrequencyJudge(a, record_elem, rfield, instance_elem, ifield)
      [] a.name = "Probability" -> ProbabilityJudge(a, record_elem, rfield, instance_elem, ifield)
      [] a.name = "Proportion" -> ProportionJudge(record_elem, rfield, instance_elem)

\* if (number_of_visits - i) < (target - count), with the loop's 0-based i.
Infeasible(number_of_visits, i, target, count) ==
    (number_of_visits - i) < (target - count)

ScanResult(r, c, m, s) == [res |-> r, count |-> c, matched |-> m, steps |-> s]

ScanStep(i, count, judge) == [i |-> i, count |-> count, judge |-> judge]

\* The loop "for i in range(0, number_of_visits)" shared by the scanning
\* matchers, from iteration i (0-based) with count elements consumed.  Returns
\* the outcome, the final count, the record visits consumed (in scan order) and
\* the iterations executed, each [i, count, judge].  ScanIteration is the rest
\* of iteration i once the comparison of the two elements gave j.
RECURSIVE ScanLoop(_, _, _, _, _, _, _, _)
RECURSIVE ScanIteration(_, _, _, _, _, _, _, _, _)
ScanIteration(a, visits, rfield, inst, i, count, matched, steps, j) ==
    LET number_of_visits == Len(visits)
        target == Len(inst.elems)
        s2 == Append(steps, ScanStep(i, count, j))
        c2 == IF j = "consume" THEN count + 1 ELSE count
        m2 == IF j = "consume" THEN Append(matched, visits[i + 1]) ELSE matched
    IN  IF j = "FieldError" THEN ScanResult("FieldError", count, matched, s2)
        ELSE IF j = "fail" THEN ScanResult("False", count, matched, s2)
        ELSE IF c2 = target THEN ScanResult("True", c2, m2, s2)
        ELSE IF Infeasible(number_of_visits, i, target, c2) THEN ScanResult("False", c2, m2, s2)
        ELSE ScanLoop(a, visits, rfield, inst, i + 1, c2, m2, s2)

ScanLoop(a, visits, rfield, inst, i, count, matched, steps) ==
    IF i >= Len(visits) THEN ScanResult("True", count, matched, steps)
    ELSE IF count >= Len(inst.elems)
    THEN ScanResult("IndexError", count, matched, Append(steps, ScanStep(i, count, "IndexError")))
    ELSE ScanIteration(a, visits, rfield, inst, i, count, matched, steps,
                       Judge(a, visits[i + 1], rfield, inst.elems[count + 1], inst.field))

Scan(a, visits, rfield, inst) == ScanLoop(a, visits, rfield, inst, 0, 0, <<>>, <<>>)

\* Mutant of FreeVisits: the control flags are not consulted.
FreeVisitsUnmarked(visits, instance_elem, used) ==
    {i \in 1..Len(visits) : SameXY(instance_elem, visits[i])}

\* The record positions the inner loop of LocationAttack.has_matching may
\* pair with instance_elem: same x, same y and control[i] still True.
FreeVisits(visits, instance_elem, used) ==
    {i \in 1..Len(visits) : SameXY(instance_elem, visits[i]) /\ i \notin used}

\* LocationAttack.has_matching: the loop over j (0-based), used = the record
\* positions whose control flag is False.  LocationIteration is iteration j
\* given the positions free for instance[j].
RECURSIVE LocationLoop(_, _, _, _, _)
LocationIteration(visits, elems, j, used, count, free) ==
    LET target == Len(elems)
        first == CHOOSE i \in free : \A i2 \in free : i <= i2
        c2 == IF free # {} THEN count + 1 ELSE count
        u2 == IF free # {} THEN used \cup {first} ELSE used
    IN  IF c2 = target THEN "True"
        ELSE IF j >= c2 THEN "False"
        ELSE LocationLoop(visits, elems, j + 1, u2, c2)

LocationLoop(visits, elems, j, used, count) ==
    IF j >= Len(elems) THEN "True"
    ELSE LocationIteration(visits, elems, j, used, count, FreeVisits(visits, elems[j + 1], used))

LocationHasMatching(visits, inst) == LocationLoop(visits, inst.elems, 0, {}, 0)

\* ProportionAttack.__match_proportions over the freq values of the matched
\* elements (matched_elements.visits, a FrequencyVector filled by add_visit)
\* and the instance; sides scaled by TolDen * m0 * f0 (frequencies are >= 1).
RECURSIVE ProportionsLoop(_, _, _, _)
ProportionsLoop(a, mvisits, inst, i) ==
    IF i >= Len(mvisits) THEN "True"
    ELSE IF inst.field # "freq" THEN "FieldError"
    ELSE LET m0 == mvisits[1].p
             f0 == inst.elems[1].p
             scaled_diff == (mvisits[i + 1].p * f0 - inst.elems[i + 1].p * m0) * TolDen
             p_diff_min == scaled_diff - a.tolerance * m0 * f0
             p_diff_max == scaled_diff + a.tolerance * m0 * f0
             samep == p_diff_min >= 0 /\ p_diff_max <= 0
         IN  IF ~samep THEN "False" ELSE ProportionsLoop(a, mvisits, inst, i + 1)

RECURSIVE AddAll(_, _)
AddAll(acc, vs) ==
    IF vs = <<>> THEN acc
    ELSE AddAll(VectorAddVisit(acc, Head(vs).x, Head(vs).y, Head(vs).p), Tail(vs))

match_proportions(a, matched, inst) ==
    IF Len(inst.elems) = 0 \/ Len(matched) = 0 THEN "IndexError"
    ELSE ProportionsLoop(a, AddAll(<<>>, matched), inst, 1)

ProportionPhase2(a, inst, phase1) ==
    [res |-> IF phase1.res = "True" THEN match_proportions(a, phase1.matched, inst)
             ELSE phase1.res,
     steps |-> phase1.steps]

ProportionHasMatching(a, visits, rfield, inst) ==
    ProportionPhase2(a, inst, Scan(a, visits, rfield, inst))

ScanOutcome(run) == [res |-> run.res, steps |-> run.steps]

\* has_matching of the attack's class, with the iterations of its scan.
Matching(a, visits, rfield, inst) ==
    CASE a.name = "Location" -> [res |-> LocationHasMatching(visits, inst), steps |-> <<>>]
      [] a.name = "Proportion" -> ProportionHasMatching(a, visits, rfield, inst)
      [] OTHER -> ScanOutcome(Scan(a, visits, rfield, inst))

has_matching(a, visits, rfield, inst) == Matching(a, visits, rfield, inst).res

(***************************************************************************)
(* attacks.py: Attack (the risk aggregator).                               *)
(***************************************************************************)
\* itertools.combinations(range(lo, n + 1), r) as the sequence of its index
\* tuples (1-based positions, in the order the iterator yields them).
RECURSIVE combinations(_, _, _)
combinations(lo, n, r) ==
    IF r = 0 THEN << <<>> >>
    ELSE IF lo > n - r + 1 THEN <<>>
    ELSE LET with_lo == combinations(lo + 1, n, r - 1)
         IN  [c \in 1..Len(with_lo) |-> <<lo>> \o with_lo[c]]
             \o combinations(lo + 1, n, r)

\* int(payload): what the cast to Trajectory.data_type's "time" (int) does to
\* the third field.  A time or a freq is an integer already; a prob p/TolDen in
\* [0,1] is truncated to 0 or 1.
CastToInt(rfield, p) ==
    IF rfield = "prob" THEN (IF p >= TolDen THEN 1 ELSE 0) ELSE p

\* array(list(instance), dtype=Trajectory.data_type): the selected visits, cast
\* field by field in position to (x, y, time).
ToArray(visits, idx, rfield) ==
    [field |-> data_type("Trajectory"),
     elems |-> [c \in 1..Len(idx) |->
                   [x |-> visits[idx[c]].x, y |-> visits[idx[c]].y,
                    p |-> CastToInt(rfield, visits[idx[c]].p)]]]

Value(n, d) == [ok |-> TRUE, num |-> n, den |-> d, err |-> ""]
Raise(e) == [ok |-> FALSE, num |-> 0, den |-> 1, err |-> e]

\* Mutant of Greater: the comparison reversed (if prob < risk).
GreaterReversed(a, b) == a.num * b.den < b.num * a.den

\* a > b for values num/den with den > 0.
Greater(a, b) == a.num * b.den > b.num * a.den

\* Mutant of OwnRecord: num_records counts every record.
OwnRecordAlways(individual_record, individual_id) == TRUE

\* Mutant of Divide: an undefined ratio coerced to 0.0.
DivideOrZero(num_records, support) ==
    IF support = 0 THEN Value(0, 1) ELSE Value(num_records, support)

\* if individual_record.id == individual_id
OwnRecord(individual_record, individual_id) == individual_record.id = individual_id

\* reid_prob = num_records / support, a float division.
Divide(num_records, support) ==
    IF support = 0 THEN Raise("ZeroDivisionError") ELSE Value(num_records, support)

\* The loop of __reidentification_prob from record r (1-based) on: support and
\* num_records, or the exception has_matching raised.  ReidIteration is
\* iteration r given the outcome m of has_matching.
Counts(support, num_records, err) ==
    [support |-> support, num_records |-> num_records, err |-> err]

RECURSIVE ReidLoop(_, _, _, _, _, _, _)
ReidIteration(a, ds, rfield, inst, individual_id, r, acc, m) ==
    IF m \notin {"True", "False"} THEN Counts(acc.support, acc.num_records, m)
    ELSE ReidLoop(a, ds, rfield, inst, individual_id, r + 1,
                  Counts(IF m = "True" THEN acc.support + 1 ELSE acc.support,
                         IF OwnRecord(ds[r], individual_id)
                         THEN acc.num_records + 1 ELSE acc.num_records,
                         ""))

ReidLoop(a, ds, rfield, inst, individual_id, r, acc) ==
    IF r > Len(ds) THEN acc
    ELSE ReidIteration(a, ds, rfield, inst, individual_id, r, acc,
                       has_matching(a, ds[r].visits, rfield, inst))

ReidResult(c) == IF c.err # "" THEN Raise(c.err) ELSE Divide(c.num_records, c.support)

reidentification_prob(a, ds, rfield, inst, individual_id) ==
    ReidResult(ReidLoop(a, ds, rfield, inst, individual_id, 1, Counts(0, 0, "")))

\* Mutant of InstanceSize: k is used whatever the number of visits.
InstanceSizeUnclamped(k, number_of_visits) == k

\* The number of elements per instance: len(visits) when k exceeds it, else k.
InstanceSize(k, number_of_visits) == IF k > number_of_visits THEN number_of_visits ELSE k

RiskRun(res, probs, instances) == [res |-> res, probs |-> probs, instances |-> instances]

\* The loop "for instance in instances" of Attack.risk from instance c on;
\* probs collects the probability of every instance evaluated.  RiskIteration
\* is iteration c given the probability prob of instance c.
RECURSIVE RiskLoop(_, _, _, _, _, _, _, _)
RiskIteration(a, ds, rfield, individual, idxs, c, risk, probs, prob) ==
    IF ~prob.ok THEN RiskRun(prob, Append(probs, prob), idxs)
    ELSE RiskLoop(a, ds, rfield, individual, idxs, c + 1,
                  IF Greater(prob, risk) THEN prob ELSE risk, Append(probs, prob))

RiskLoop(a, ds, rfield, individual, idxs, c, risk, probs) ==
    IF c > Len(idxs) THEN RiskRun(risk, probs, idxs)
    ELSE RiskIteration(a, ds, rfield, individual, idxs, c, risk, probs,
             reidentification_prob(a, ds, rfield,
                 ToArray(individual.visits, idxs[c], rfield), individual.id))

\* Attack.risk, with the instances (index tuples) it enumerated.
\* combinations raises ValueError for a negative size.
RiskOfSize(a, ds, rfield, individual, size) ==
    IF size < 0 THEN RiskRun(Raise("ValueError"), <<>>, <<>>)
    ELSE RiskLoop(a, ds, rfield, individual,
                  combinations(1, Len(individual.visits), size), 1, Value(0, 1), <<>>)

BaseRisk(a, ds, rfield, individual) ==
    RiskOfSize(a, ds, rfield, individual, InstanceSize(a.k, Len(individual.visits)))

\* Mutant of HomeWorkRisk: a record short of two visits gets the risk 0.
HomeWorkRiskZero(a, ds, rfield, individual) ==
    IF Len(individual.visits) < 2
    THEN RiskRun(Value(0, 1), <<>>, <<>>)
    ELSE RiskRun(Raise("AttributeError"), <<>>, << <<1, 2>> >>)

\* HomeWorkAttack.risk: visits[0] and visits[1] (IndexError when missing), then
\* self.__reidentification_prob, which inside HomeWorkAttack names the attribute
\* _HomeWorkAttack__reidentification_prob; Attack defines
\* _Attack__reidentification_prob only.
HomeWorkRisk(a, ds, rfield, individual) ==
    IF Len(individual.visits) < 2
    THEN RiskRun(Raise("IndexError"), <<>>, <<>>)
    ELSE RiskRun(Raise("AttributeError"), <<>>, << <<1, 2>> >>)

risk(a, ds, rfield, individual) ==
    IF a.name = "HomeWork" THEN HomeWorkRisk(a, ds, rfield, individual)
    ELSE BaseRisk(a, ds, rfield, individual)

\* Attack.all_risks: risks[individual_record.id] = self.risk(...) record by
\* record; the first exception ends the call.
\* Mutant of SetItem: an id already in the mapping keeps its first value.
SetItemKeepFirst(risks, key, value) ==
    [i \in (DOMAIN risks) \cup {key} |-> IF i \in DOMAIN risks THEN risks[i] ELSE value]

\* risks[key] = value
SetItem(risks, key, value) ==
    [i \in (DOMAIN risks) \cup {key} |-> IF i = key THEN value ELSE risks[i]]

RECURSIVE AllRisksLoop(_, _, _, _, _)
AllRisksIteration(a, ds, rfield, r, risks, v) ==
    IF ~v.ok THEN [ok |-> FALSE, risks |-> risks, err |-> v.err]
    ELSE AllRisksLoop(a, ds, rfield, r + 1, SetItem(risks, ds[r].id, v))

AllRisksLoop(a, ds, rfield, r, risks) ==
    IF r > Len(ds) THEN [ok |-> TRUE, risks |-> risks, err |-> ""]
    ELSE AllRisksIteration(a, ds, rfield, r, risks, risk(a, ds, rfield, ds[r]).res)

all_risks(a, ds, rfield) == AllRisksLoop(a, ds, rfield, 1, <<>>)

(***************************************************************************)
(* Attack construction (the __init__ methods).                             *)
(***************************************************************************)
AttackNames == {"Location", "LocationSequence", "Visit", "Frequency",
                "Probability", "Proportion", "HomeWork"}

NoAttack == [name |-> "none", k |-> 0, tolerance |-> -1, precision |-> ""]

HomeWorkK == 0

HasTolerance(name) == name \in {"Frequency", "Probability", "Proportion", "HomeWork"}

\* The object the constructor yields, or NoAttack when it raises ValueError.
AttackInit(name, k, tolerance, precision) ==
    IF name = "Visit" /\ precision \notin Range(precision_levels) THEN NoAttack
    ELSE IF HasTolerance(name) /\ (tolerance < 0 \/ tolerance > TolDen) THEN NoAttack
    ELSE [name |-> name,
          k |-> IF name = "HomeWork" THEN HomeWorkK ELSE k,
          tolerance |-> IF HasTolerance(name) THEN tolerance ELSE -1,
          precision |-> IF name = "Visit" THEN precision ELSE ""]

(***************************************************************************)
(* Inputs.                                                                 *)
(***************************************************************************)
\* Identifiers are opaque (compared for equality only): a new record takes an id
\* already in the dataset or the least unused one.
Ids == 1..MaxRecords

T0 == <<2, 0, 2, 0, 0, 1, 0, 1, 1, 1, 0, 0, 0, 0>>
T1 == <<2, 0, 2, 0, 0, 1, 0, 1, 1, 2, 0, 0, 0, 0>>
T2 == <<2, 0, 2, 0, 0, 1, 0, 1, 1, 2, 0, 5, 3, 0>>

PayloadValues(k) ==
    CASE k = "Trajectory" -> {T1, T2}
      [] k = "FrequencyVector" -> {8, 10}
      [] k = "ProbabilityVector" -> {5, 10}

Locations == {<<0, 0>>, <<0, 1>>}
ScanLocations == {<<0, 0>>, <<0, 1>>, <<1, 0>>}

KInputs == {-1} \cup (0..MaxK)
ToleranceInputs == {-1, 9, 11}
PrecisionInputs == {"Day", "Minute", "Week"}
ScanTolerances == {0, 9, 10}

\* The attacks a caller runs on a dataset of each kind.
AttacksFor(k) ==
    CASE k = "Trajectory" -> {"Location", "LocationSequence", "Visit"}
      [] k = "FrequencyVector" -> {"Location", "Frequency", "Proportion", "HomeWork"}
      [] k = "ProbabilityVector" -> {"LocationSequence", "Probability"}

\* key(a) <= key(b) in the kind's order: ascending time, descending freq/prob.
InOrder(k, a, b) == IF k = "Trajectory" THEN ~IntLess(b.p, a.p) ELSE a.p >= b.p

Sorted(k, visits) == \A i \in 1..(Len(visits) - 1) : InOrder(k, visits[i], visits[i + 1])

\* The payloads of the direct calls of has_matching: for a Trajectory a third
\* timestamp, an hour before T1.
ScanPayloadValues(k) == IF k = "Trajectory" THEN {T0, T1, T2} ELSE PayloadValues(k)

ScanVisitValues(k) ==
    {[x |-> l[1], y |-> l[2], p |-> v] : l \in ScanLocations, v \in ScanPayloadValues(k)}

(***************************************************************************)
(* Specification Spec: ingestion (records built by add_visit), construction *)
(* of an attack, then risk / all_risks on the built dataset.               *)
(***************************************************************************)
NoOut == [op |-> "none", individual |-> 0, excluded |-> FALSE, instances |-> <<>>,
          probs |-> <<>>, res |-> Value(0, 1), risks |-> <<>>, match |-> "",
          steps |-> <<>>]

Init ==
    /\ kind \in Kinds
    /\ dataset = <<>>
    /\ attack = NoAttack
    /\ instance = [field |-> data_type(kind), elems |-> <<>>]
    /\ out = NoOut

NewRecord(individual_id) ==
    /\ out = NoOut
    /\ Len(dataset) < MaxRecords
    /\ individual_id <= Len(dataset) + 1
    /\ dataset' = Append(dataset, IndividualRecord(individual_id))
    /\ UNCHANGED <<kind, attack, instance, out>>

AddVisit(r, x, y, i) ==
    /\ out = NoOut
    /\ r \in 1..Len(dataset)
    /\ Len(dataset[r].visits) < MaxVisits
    /\ dataset' = [dataset EXCEPT ![r].visits = add_visit(kind, @, x, y, i)]
    /\ UNCHANGED <<kind, attack, instance, out>>

Construct(name, k, tolerance, precision) ==
    /\ attack = NoAttack
    /\ out = NoOut
    /\ attack' = AttackInit(name, k, tolerance, precision)
    /\ out' = IF attack' = NoAttack
              THEN [NoOut EXCEPT !.op = "construct", !.res = Raise("ValueError")]
              ELSE NoOut
    /\ UNCHANGED <<kind, dataset, instance>>

\* The dataset a caller passes to risk: the built one, or the built one
\* without the individual's own record.
Without(ds, r) == SubSeq(ds, 1, r - 1) \o SubSeq(ds, r + 1, Len(ds))

Passed(ds, r, excluded) == IF excluded THEN Without(ds, r) ELSE ds

RiskOut(r, excluded, run) ==
    [NoOut EXCEPT !.op = "risk", !.individual = r, !.excluded = excluded,
                  !.instances = run.instances, !.probs = run.probs, !.res = run.res]

Risk(r, excluded) ==
    /\ attack # NoAttack
    /\ out = NoOut
    /\ r \in 1..Len(dataset)
    /\ out' = RiskOut(r, excluded,
                      risk(attack, Passed(dataset, r, excluded), data_type(kind), dataset[r]))
    /\ UNCHANGED <<kind, dataset, attack, instance>>

AllRisksOut(run) ==
    [NoOut EXCEPT !.op = "all_risks", !.risks = run.risks,
                  !.res = IF run.ok THEN Value(0, 1) ELSE Raise(run.err)]

AllRisks ==
    /\ attack # NoAttack
    /\ out = NoOut
    /\ out' = AllRisksOut(all_risks(attack, dataset, data_type(kind)))
    /\ UNCHANGED <<kind, dataset, attack, instance>>

Next ==
    \/ \E individual_id \in Ids : NewRecord(individual_id)
    \/ \E r \in 1..MaxRecords, l \in Locations, i \in PayloadValues(kind) :
          AddVisit(r, l[1], l[2], i)
    \/ \E name \in AttacksFor(kind), k \in KInputs, tolerance \in ToleranceInputs,
          precision \in PrecisionInputs :
          Construct(name, k, tolerance, precision)
    \/ \E r \in 1..MaxRecords, excluded \in BOOLEAN : Risk(r, excluded)
    \/ AllRisks

Spec == Init /\ [][Next]_vars

(***************************************************************************)
(* Specification SpecMatch: has_matching called directly on one record of  *)
(* the kind and an arbitrary instance of that kind.                        *)
(***************************************************************************)
InitMatch ==
    /\ kind \in Kinds
    /\ \E visits \in SeqsUpTo(ScanVisitValues(kind), MaxScanVisits) :
          /\ Sorted(kind, visits)
          /\ dataset = <<[id |-> 1, visits |-> visits]>>
    /\ \E name \in AttackNames, tolerance \in ScanTolerances,
          precision \in Range(precision_levels) :
          /\ name \in AttacksFor(kind)
          /\ attack = AttackInit(name, MaxK, tolerance, precision)
          /\ attack # NoAttack
    /\ \E elems \in SeqsUpTo(ScanVisitValues(kind), MaxInst) :
          instance = [field |-> data_type(kind), elems |-> elems]
    /\ out = NoOut

HasMatchingOut(run) ==
    [NoOut EXCEPT !.op = "has_matching", !.match = run.res, !.steps = run.steps]

HasMatching ==
    /\ out = NoOut
    /\ out' = HasMatchingOut(Matching(attack, dataset[1].visits, data_type(kind), instance))
    /\ UNCHANGED <<kind, dataset, attack, instance>>

NextMatch == HasMatching

SpecMatch == InitMatch /\ [][NextMatch]_vars

(***************************************************************************)
(* Properties.                                                             *)
(***************************************************************************)
RiskAttacks == AttackNames \ {"HomeWork"}

Field == data_type(kind)
Individual == dataset[out.individual]
PassedDataset == Passed(dataset, out.individual, out.excluded)

\* The strictly increasing sequences of m positions among 1..n.
OrderedSelections(n, m) ==
    {s \in [1..m -> 1..n] : \A i \in 1..(m - 1) : s[i] < s[i + 1]}

RECURSIVE Binomial(_, _)
Binomial(n, m) ==
    IF m = 0 THEN 1
    ELSE IF n = 0 THEN 0
    ELSE Binomial(n - 1, m - 1) + Binomial(n - 1, m)

AtMost(a, b) == a.num * b.den <= b.num * a.den
SameRatio(a, b) == a.num * b.den = b.num * a.den

\* The re-identification probability of the instance at positions idx.
ProbOf(idx) ==
    reidentification_prob(attack, PassedDataset, Field,
                          ToArray(Individual.visits, idx, Field), Individual.id)

\* The records of the passed dataset that match the instance at positions idx.
MatchingRecords(idx) ==
    {r \in 1..Len(PassedDataset) :
        has_matching(attack, PassedDataset[r].visits, Field,
                     ToArray(Individual.visits, idx, Field)) = "True"}

UniqueIds(ds) == \A i, j \in 1..Len(ds) : ds[i].id = ds[j].id => i = j

\* C1: when Attack.risk returns, its value is the maximum of the
\* re-identification probabilities of the instances of size min(k, n): no
\* instance has a larger probability and some instance has exactly that one
\* (so the value is 0 only if every instance has probability 0).
C1_RiskIsMaximum ==
    (out.op = "risk" /\ attack.name \in RiskAttacks /\ out.res.ok) =>
        LET n == Len(Individual.visits)
            P == {ProbOf(idx) : idx \in OrderedSelections(n, Min(attack.k, n))}
        IN  /\ \A p \in P : p.ok /\ AtMost(p, out.res)
            /\ \E p \in P : SameRatio(p, out.res)

\* Witness of C1: risk returned after evaluating instances of different
\* probabilities.
C1_Witness ==
    /\ out.op = "risk" /\ attack.name \in RiskAttacks /\ out.res.ok
    /\ \E c, d \in 1..Len(out.probs) : out.probs[c].ok /\ out.probs[d].ok
                                        /\ ~AtMost(out.probs[c], out.probs[d])

\* C2: the probability computed for each instance is matches_for_individual /
\* matches_total, the numerator counting only the records that have the
\* individual's id and match the instance.
C2_NumeratorCountsMatchingOwnRecords ==
    out.op = "risk" =>
        \A c \in 1..Len(out.probs) :
            out.probs[c].ok =>
                LET matching == MatchingRecords(out.instances[c])
                    own == {r \in matching : PassedDataset[r].id = Individual.id}
                IN  out.probs[c].num * Cardinality(matching)
                        = Cardinality(own) * out.probs[c].den

\* C3: on a dataset of unique ids, a risk that is returned (every instance
\* evaluated had matches_total > 0) lies in [0,1].
C3_RiskInUnitInterval ==
    (out.op = "risk" /\ out.res.ok /\ UniqueIds(PassedDataset)) =>
        /\ out.res.den > 0
        /\ 0 <= out.res.num
        /\ out.res.num <= out.res.den
        /\ \A c \in 1..Len(out.probs) : out.probs[c].den > 0

\* Witness of C3: a risk strictly inside the interval, on two records of
\* different ids, for an individual of the dataset.
C3_Witness ==
    /\ out.op = "risk" /\ out.res.ok /\ ~out.excluded
    /\ Len(dataset) = 2 /\ UniqueIds(dataset)
    /\ 0 < out.res.num /\ out.res.num < out.res.den

\* elems is an order-preserving selection of the visits themselves.
IsOwnSelection(elems, visits) ==
    \E idx \in OrderedSelections(Len(visits), Len(elems)) :
        \A c \in 1..Len(elems) : elems[c] = visits[idx[c]]

\* C4: self-consistency: has_matching is true of a record with at least one
\* visit and any non-empty order-preserving selection of its own visits.
C4_SelfConsistency ==
    (/\ out.op = "has_matching"
     /\ Len(dataset[1].visits) >= 1 /\ Len(instance.elems) >= 1
     /\ IsOwnSelection(instance.elems, dataset[1].visits)) =>
        out.match = "True"

\* C5: if some enumerated instance is matched by no record of the dataset,
\* risk ends in an error and returns no number.
C5_ZeroMatchesIsAnError ==
    (/\ out.op = "risk"
     /\ \E c \in 1..Len(out.instances) : MatchingRecords(out.instances[c]) = {}) =>
        ~out.res.ok

\* Witness of C5: the division by a zero matches_total raised.
C5_Witness ==
    /\ out.op = "risk" /\ out.res.err = "ZeroDivisionError"
    /\ \E c \in 1..Len(out.instances) : MatchingRecords(out.instances[c]) = {}

\* C6: all_risks succeeds exactly when risk succeeds for each record; then
\* its keys are exactly the ids of the records and the value of an id is the
\* risk of the record with that id (the last such record).
C6_AllRisksMapping ==
    out.op = "all_risks" =>
        /\ out.res.ok <=>
              \A r \in 1..Len(dataset) : risk(attack, dataset, Field, dataset[r]).res.ok
        /\ out.res.ok =>
              /\ DOMAIN out.risks = {dataset[r].id : r \in 1..Len(dataset)}
              /\ \A r \in 1..Len(dataset) :
                    (\A q \in (r + 1)..Len(dataset) : dataset[q].id # dataset[r].id) =>
                        out.risks[dataset[r].id] = risk(attack, dataset, Field, dataset[r]).res

\* Witness of C6: a mapping with two ids of different risks.
C6_Witness ==
    /\ out.op = "all_risks" /\ out.res.ok
    /\ Len(dataset) = 2 /\ UniqueIds(dataset)
    /\ ~SameRatio(out.risks[dataset[1].id], out.risks[dataset[2].id])

\* C7: for k >= 0 the instances Attack.risk enumerates are the C(n, m)
\* selections of m = min(k, n) positions, each once, each of length m and in
\* increasing position order; for k >= n the full sequence alone.
C7_InstancesAreTheCombinations ==
    (out.op = "risk" /\ attack.name \in RiskAttacks /\ attack.k >= 0) =>
        LET n == Len(Individual.visits)
            m == Min(attack.k, n)
        IN  /\ Len(out.instances) = Binomial(n, m)
            /\ \A c \in 1..Len(out.instances) : out.instances[c] \in OrderedSelections(n, m)
            /\ \A c, d \in 1..Len(out.instances) : out.instances[c] = out.instances[d] => c = d
            /\ attack.k >= n => out.instances = << [i \in 1..n |-> i] >>

\* Witness of C7: two instances of one visit each from a record of two visits.
C7_Witness ==
    /\ out.op = "risk" /\ attack.name \in RiskAttacks
    /\ attack.k = 1 /\ Len(Individual.visits) = 2
    /\ Len(out.instances) = 2

Count(seq, l) == Cardinality({i \in 1..Len(seq) : seq[i].x = l[1] /\ seq[i].y = l[2]})

MultisetIncluded(elems, visits) ==
    \A l \in ScanLocations : Count(elems, l) <= Count(visits, l)

Bijections(n) == {f \in [1..n -> 1..n] : \A i, j \in 1..n : f[i] = f[j] => i = j}

Permuted(seq, f) == [i \in 1..Len(seq) |-> seq[f[i]]]

\* C8: LocationAttack.has_matching is true exactly when the multiset of (x,y)
\* of the instance is included in that of the record's visits, and its result
\* is the same for every permutation of the visits and of the instance.
C8_LocationIsMultisetInclusion ==
    (out.op = "has_matching" /\ attack.name = "Location") =>
        /\ out.match \in {"True", "False"}
        /\ out.match = "True" <=> MultisetIncluded(instance.elems, dataset[1].visits)
        /\ \A f \in Bijections(Len(dataset[1].visits)), g \in Bijections(Len(instance.elems)) :
              LocationHasMatching(Permuted(dataset[1].visits, f),
                                  [instance EXCEPT !.elems = Permuted(instance.elems, g)])
                  = out.match

\* Witness of C8: a match of two instance elements listed in the order
\* opposite to the record's.
C8_Witness ==
    /\ out.op = "has_matching" /\ attack.name = "Location" /\ out.match = "True"
    /\ Len(instance.elems) = 2 /\ Len(dataset[1].visits) = 2
    /\ ~SameXY(instance.elems[1], instance.elems[2])
    /\ SameXY(instance.elems[1], dataset[1].visits[2])
    /\ SameXY(instance.elems[2], dataset[1].visits[1])

IsSubsequenceXY(elems, visits) ==
    \E idx \in OrderedSelections(Len(visits), Len(elems)) :
        \A c \in 1..Len(elems) : SameXY(elems[c], visits[idx[c]])

\* C9: LocationSequenceAttack.has_matching of a non-empty instance is true
\* exactly when the (x,y) of the instance are an in-order subsequence of the
\* (x,y) of the record's visits (every element consumed, the last included).
C9_SequenceIsSubsequence ==
    (/\ out.op = "has_matching" /\ attack.name = "LocationSequence"
     /\ Len(instance.elems) >= 1) =>
        (out.match = "True" <=> IsSubsequenceXY(instance.elems, dataset[1].visits))

\* record frequency < instance frequency * tolerance
BelowTolerance(record_elem, instance_elem) ==
    record_elem.p * TolDen < instance_elem.p * attack.tolerance

\* C10: FrequencyAttack on one record visit and one instance element at the
\* same location matches iff f_r >= f_i * t; and a scan that reaches a record
\* visit whose frequency is below the current instance element's frequency
\* times t returns false at that iteration.
C10_FrequencyTolerance ==
    (out.op = "has_matching" /\ attack.name = "Frequency") =>
        LET visits == dataset[1].visits
            elems == instance.elems
        IN  /\ (Len(visits) = 1 /\ Len(elems) = 1 /\ SameXY(elems[1], visits[1])) =>
                  /\ out.match \in {"True", "False"}
                  /\ out.match = "True" <=> ~BelowTolerance(visits[1], elems[1])
            /\ \A s \in 1..Len(out.steps) :
                  (/\ out.steps[s].count < Len(elems)
                   /\ BelowTolerance(visits[out.steps[s].i + 1], elems[out.steps[s].count + 1])) =>
                      (out.match = "False" /\ s = Len(out.steps))

\* Witness of C10: tolerance 0.9, instance frequency 10, record frequency 8 at
\* the same location: no match.
C10_Witness ==
    /\ out.op = "has_matching" /\ attack.name = "Frequency"
    /\ attack.tolerance * 10 = 9 * TolDen
    /\ Len(dataset[1].visits) = 1 /\ Len(instance.elems) = 1
    /\ SameXY(instance.elems[1], dataset[1].visits[1])
    /\ instance.elems[1].p = 10 /\ dataset[1].visits[1].p = 8
    /\ out.match = "False"

\* instance probability - tolerance <= record probability <= instance
\* probability + tolerance (all three over TolDen).
WithinTolerance(record_elem, instance_elem) ==
    /\ record_elem.p >= instance_elem.p - attack.tolerance
    /\ record_elem.p <= instance_elem.p + attack.tolerance

\* C11: in ProbabilityAttack.has_matching a record visit consumes the current
\* instance element exactly when their (x,y) are equal and the record's
\* probability is within tolerance of the element's; a record visit below
\* instance.prob - tolerance ends the scan with false; a record visit above
\* instance.prob + tolerance is skipped.
C11_ProbabilityTolerance ==
    (out.op = "has_matching" /\ attack.name = "Probability") =>
        \A s \in 1..Len(out.steps) :
            out.steps[s].count < Len(instance.elems) =>
                LET record_elem == dataset[1].visits[out.steps[s].i + 1]
                    instance_elem == instance.elems[out.steps[s].count + 1]
                IN  /\ out.steps[s].judge = "consume" <=>
                          (SameXY(instance_elem, record_elem)
                           /\ WithinTolerance(record_elem, instance_elem))
                    /\ record_elem.p < instance_elem.p - attack.tolerance =>
                          (out.match = "False" /\ s = Len(out.steps))
                    /\ record_elem.p > instance_elem.p + attack.tolerance =>
                          out.steps[s].judge = "skip"

\* The record visits a leftmost in-order pairing by (x,y) gives the instance
\* elements, from record position from on (<<>> when some element finds none).
RECURSIVE LeftmostPairing(_, _, _)
LeftmostPairing(elems, visits, from) ==
    IF elems = <<>> THEN <<>>
    ELSE LET S == {i \in from..Len(visits) : SameXY(Head(elems), visits[i])}
             first == CHOOSE i \in S : \A i2 \in S : i <= i2
             rest == LeftmostPairing(Tail(elems), visits, first + 1)
         IN  IF S = {} \/ Len(rest) < Len(elems) - 1 THEN <<>>
             ELSE <<visits[first]>> \o rest

\* |f_matched[c]/f_matched[1] - f_instance[c]/f_instance[1]| <= tolerance
ProportionWithin(matched, elems, c) ==
    LET d == matched[c].p * elems[1].p - elems[c].p * matched[1].p
        bound == attack.tolerance * matched[1].p * elems[1].p
    IN  d * TolDen <= bound /\ (0 - d) * TolDen <= bound

\* C12: ProportionAttack.has_matching of a non-empty instance is true exactly
\* when (1) every instance element is consumed in order by a distinct record
\* visit of equal (x,y) and (2) every matched element after the first has its
\* frequency ratio to the first within tolerance of the instance's ratio; and
\* it is false (neither true nor an exception) when (1) fails.
C12_ProportionTwoPhases ==
    (out.op = "has_matching" /\ attack.name = "Proportion" /\ Len(instance.elems) >= 1) =>
        LET matched == LeftmostPairing(instance.elems, dataset[1].visits, 1)
            phase1 == Len(matched) = Len(instance.elems)
            phase2 == \A c \in 2..Len(matched) : ProportionWithin(matched, instance.elems, c)
        IN  /\ out.match = "True" <=> (phase1 /\ phase2)
            /\ ~phase1 => out.match = "False"

\* C13: tolerance monotonicity: a Frequency, Probability or Proportion match
\* found under a tolerance is found under every larger tolerance, for the same
\* record and instance.
C13_ToleranceMonotone ==
    (/\ out.op = "has_matching"
     /\ attack.name \in {"Frequency", "Probability", "Proportion"}
     /\ out.match = "True") =>
        \A t2 \in ScanTolerances :
            t2 >= attack.tolerance =>
                has_matching([attack EXCEPT !.tolerance = t2], dataset[1].visits,
                             Field, instance) = "True"

\* C14: precision coarsening is monotone: a VisitAttack match found at a
\* precision level is found at every coarser level, for the same record and
\* instance (all timestamps have 14 digits).
C14_PrecisionMonotone ==
    (out.op = "has_matching" /\ attack.name = "Visit" /\ out.match = "True") =>
        \A coarser \in Range(precision_levels) :
            PrecisionDigits(coarser) <= PrecisionDigits(attack.precision) =>
                has_matching([attack EXCEPT !.precision = coarser], dataset[1].visits,
                             Field, instance) = "True"

\* C15: HomeWorkAttack.risk on a dataset of unique ids and an individual with
\* at least two visits returns a number, the re-identification probability of
\* the instance made of the individual's first two visits under the Frequency
\* matching rule.
C15_HomeWorkRiskIsReturned ==
    (/\ out.op = "risk" /\ attack.name = "HomeWork"
     /\ UniqueIds(PassedDataset) /\ Len(Individual.visits) >= 2) =>
        LET inst == [field |-> "freq", elems |-> SubSeq(Individual.visits, 1, 2)]
            frequency == [attack EXCEPT !.name = "Frequency"]
            matching == {r \in 1..Len(PassedDataset) :
                            has_matching(frequency, PassedDataset[r].visits, "freq", inst)
                                = "True"}
            own == {r \in matching : PassedDataset[r].id = Individual.id}
        IN  /\ out.res.ok
            /\ out.res.num * Cardinality(matching) = Cardinality(own) * out.res.den

\* C16: HomeWorkAttack.risk on an individual with fewer than two visits ends
\* in an error and returns no number.
C16_HomeWorkTooFewVisits ==
    (out.op = "risk" /\ attack.name = "HomeWork" /\ Len(Individual.visits) < 2) =>
        ~out.res.ok

\* Witness of C16: the call on a record of one visit raised on visits[1].
C16_Witness ==
    /\ out.op = "risk" /\ attack.name = "HomeWork"
    /\ Len(Individual.visits) = 1
    /\ out.res.err = "IndexError"

\* A configuration the constructors are to accept: tolerance in [0,1] where
\* there is one, a known precision level for Visit, k >= 0 where k is a
\* parameter.
ValidConfig(name, k, tolerance, precision) ==
    /\ HasTolerance(name) => (0 <= tolerance /\ tolerance <= TolDen)
    /\ name = "Visit" => precision \in Range(precision_levels)
    /\ name # "HomeWork" => k >= 0

\* C17: a constructor given an invalid configuration (tolerance outside
\* [0,1], unknown precision, negative k) raises and yields no attack object; a
\* valid configuration is stored as given.
C17_InvalidConfigurationRejected ==
    [][\A name \in AttackNames, k \in KInputs, tolerance \in ToleranceInputs,
         precision \in PrecisionInputs :
          Construct(name, k, tolerance, precision) =>
              IF ValidConfig(name, k, tolerance, precision)
              THEN /\ attack' # NoAttack
                   /\ attack'.name = name
                   /\ name # "HomeWork" => attack'.k = k
                   /\ HasTolerance(name) => attack'.tolerance = tolerance
                   /\ name = "Visit" => attack'.precision = precision
              ELSE attack' = NoAttack /\ ~out'.res.ok]_vars

RemoveAt(s, idx) == SubSeq(s, 1, idx - 1) \o SubSeq(s, idx + 1, Len(s))

\* C18: ordering invariant of the record store: a record starts empty, every
\* record stays in its kind's order (time ascending, freq and prob
\* descending), and each add_visit lengthens the record by exactly one, the
\* new visit being the one given and all earlier visits kept.
C18_OrderingInvariant ==
    [][/\ \A r \in 1..Len(dataset') :
             /\ Sorted(kind, dataset'[r].visits)
             /\ r > Len(dataset) => dataset'[r].visits = <<>>
       /\ \A r \in 1..Len(dataset), l \in Locations, i \in PayloadValues(kind) :
             AddVisit(r, l[1], l[2], i) =>
                 /\ Len(dataset'[r].visits) = Len(dataset[r].visits) + 1
                 /\ \E idx \in 1..Len(dataset'[r].visits) :
                       /\ dataset'[r].visits[idx] = [x |-> l[1], y |-> l[2], p |-> i]
                       /\ RemoveAt(dataset'[r].visits, idx) = dataset[r].visits]_vars

\* Witness of C18: a record of two visits with different keys and different
\* coordinates.
C18_Witness ==
    \E r \in 1..Len(dataset) :
        /\ Len(dataset[r].visits) = 2
        /\ dataset[r].visits[1].p # dataset[r].visits[2].p
        /\ ~SameXY(dataset[r].visits[1], dataset[r].visits[2])

\* C19: insertion is stable on ties: add_visit places the new visit after
\* every stored visit whose key is equal to (or ordered before) its own.
C19_StableOnTies ==
    [][\A r \in 1..Len(dataset), l \in Locations, i \in PayloadValues(kind) :
          AddVisit(r, l[1], l[2], i) =>
              LET elem == [x |-> l[1], y |-> l[2], p |-> i]
                  visits == dataset[r].visits
                  index == Cardinality({j \in 1..Len(visits) : InOrder(kind, visits[j], elem)})
              IN  dataset'[r].visits = InsertAt(visits, index, elem)]_vars

\* C20: feasibility: has_matching of a non-empty instance is false when the
\* record has fewer visits than the instance has elements, and when, after a
\* record visit is scanned, fewer visits remain than elements are unconsumed.
C20_Feasibility ==
    (out.op = "has_matching" /\ Len(instance.elems) >= 1) =>
        /\ Len(dataset[1].visits) < Len(instance.elems) => out.match = "False"
        /\ \A s \in 1..Len(out.steps) :
              LET consumed == IF out.steps[s].judge = "consume"
                              THEN out.steps[s].count + 1 ELSE out.steps[s].count
                  visits_left == Len(dataset[1].visits) - (out.steps[s].i + 1)
              IN  visits_left < Len(instance.elems) - consumed => out.match = "False"

\* The timestamps of iteration s of the scan, cut to the attack's precision.
RecordTime(s) ==
    extract_precision(attack.precision, dataset[1].visits[out.steps[s].i + 1].p)

InstanceTime(s) ==
    extract_precision(attack.precision, instance.elems[out.steps[s].count + 1].p)

\* Iteration s consumes: same (x,y) and same truncated timestamp.
VisitConsumes(s) ==
    /\ SameXY(instance.elems[out.steps[s].count + 1], dataset[1].visits[out.steps[s].i + 1])
    /\ InstanceTime(s) = RecordTime(s)

\* C21 as stated: in VisitAttack.has_matching a non-consuming record visit
\* whose truncated timestamp is strictly earlier than the instance element's
\* ends the scan with false; one whose truncated timestamp is greater or
\* equal is skipped.
C21_PruneWhenRecordEarlier ==
    (out.op = "has_matching" /\ attack.name = "Visit") =>
        \A s \in 1..Len(out.steps) :
            (out.steps[s].count < Len(instance.elems) /\ ~VisitConsumes(s)) =>
                /\ IntLess(RecordTime(s), InstanceTime(s)) =>
                      (out.match = "False" /\ s = Len(out.steps))
                /\ ~IntLess(RecordTime(s), InstanceTime(s)) => out.steps[s].judge = "skip"

\* C21 amended: a non-consuming record visit whose truncated timestamp is
\* strictly later than the instance element's ends the scan with false (the
\* record is in ascending time, so the element cannot be met further on); one
\* whose truncated timestamp is earlier or equal is skipped.
C21_PruneWhenRecordLater ==
    (out.op = "has_matching" /\ attack.name = "Visit") =>
        \A s \in 1..Len(out.steps) :
            (out.steps[s].count < Len(instance.elems) /\ ~VisitConsumes(s)) =>
                /\ IntLess(InstanceTime(s), RecordTime(s)) =>
                      (out.match = "False" /\ s = Len(out.steps))
                /\ ~IntLess(InstanceTime(s), RecordTime(s)) => out.steps[s].judge = "skip"

\* Witness of C21: a scan of two visits for one element; the first visit is
\* earlier than the element and is passed over, the second is later and ends
\* the scan with false.
C21_Witness ==
    /\ out.op = "has_matching" /\ attack.name = "Visit" /\ out.match = "False"
    /\ Len(instance.elems) = 1 /\ Len(out.steps) = 2
    /\ IntLess(RecordTime(1), InstanceTime(1))
    /\ IntLess(InstanceTime(2), RecordTime(2))

\* The payload field the attack's matcher reads from an instance element.
PayloadRead(name) ==
    CASE name = "Visit" -> "time"
      [] name \in {"Frequency", "Proportion", "HomeWork"} -> "freq"
      [] name = "Probability" -> "prob"

\* C22: for an attack whose matcher reads a payload, every instance risk
\* hands to has_matching holds, for each selected visit, the x, y and payload
\* of the individual's record under the field name the matcher reads, and
\* the matcher evaluates it without a field-lookup error.
C22_InstanceFields ==
    (/\ out.op = "risk"
     /\ attack.name \in {"Visit", "Frequency", "Proportion", "HomeWork", "Probability"}) =>
        \A c \in 1..Len(out.instances) :
            LET arr == ToArray(Individual.visits, out.instances[c], Field)
            IN  /\ Len(arr.elems) >= 1 => arr.field = PayloadRead(attack.name)
                /\ \A e \in 1..Len(arr.elems) :
                      arr.elems[e] = Individual.visits[out.instances[c][e]]
                /\ c <= Len(out.probs) => out.probs[c].err # "FieldError"

====
